---- MODULE Spec2Model ----
(***************************************************************************)
(* Model of the Tokenizer calculator: the recursive-descent expression     *)
(* evaluator (src/Tokenizer/src/exp_parser.rs) as a stack machine, one     *)
(* action per code segment between calls, and the session driver           *)
(* (src/Tokenizer/src/main.rs).  Characters are one-character strings; an  *)
(* input is a sequence of characters.                                      *)
(***************************************************************************)
EXTENDS Integers, Sequences, FiniteSets, TLC

VARIABLES
    input,                    \* ExprParser.input: Vec<char>
    pos,                      \* ExprParser.pos
    variables,                \* the HashMap<String, Value> (main's table, borrowed by the parser)
    last_token_was_operator,  \* ExprParser.last_token_was_operator
    stack,                    \* call stack of the parser: frames [fn, pc, value]
    ret,                      \* Result<i32, String> returned by the last callee
    result,                   \* outcome of ExprParser::parse: none / ok / err / panic
    overflow_checks,          \* the build's arithmetic: unknown until the first overflow
    pc,                       \* position of main
    statements,               \* main: statements of the current line still to process
    statement,                \* main: the statement being processed
    var_name,                 \* main: target of the statement being evaluated
    previous,                 \* caller: what its previous call of evaluate returned
    lines_read                \* number of lines read so far in the session

vars == <<input, pos, variables, last_token_was_operator, stack, ret, result,
          overflow_checks, pc, statements, statement, var_name, previous, lines_read>>

parserVars == <<input, pos, last_token_was_operator, stack, ret, result, overflow_checks>>
driverVars == <<pc, statements, statement, var_name, previous, lines_read>>

----------------------------------------------------------------------------
(* Bounds of the model *)

\* longest expression drawn exhaustively over Alphabet
MaxLen == 4
\* longest expression drawn exhaustively over ArithAlphabet
MaxArithLen == 5
\* most statements in one line of the session
MaxStmts == 2
\* most lines read in one session
MaxLines == 2
\* longest expression evaluated twice in a row
MaxTwiceLen == 3

----------------------------------------------------------------------------
(* Characters *)

Digits == {"0", "1", "2", "3", "4", "5", "6", "7", "8", "9"}
Alpha == {"a", "b", "c", "d", "e", "f", "g", "h", "i", "j", "k", "l", "m",
          "n", "o", "p", "q", "r", "s", "t", "u", "v", "w", "x", "y", "z",
          "A", "B", "C", "D", "E", "F", "G", "H", "I", "J", "K", "L", "M",
          "N", "O", "P", "Q", "R", "S", "T", "U", "V", "W", "X", "Y", "Z"}
Whitespace == {" ", "\t", "\n", "\r"}
\* Option<char>::None
None == "None"

is_ascii_digit(c) == c \in Digits
is_ascii_alphabetic(c) == c \in Alpha
is_ascii_alphanumeric(c) == c \in Alpha \cup Digits
is_whitespace(c) == c \in Whitespace

DigitVal(c) ==
    CASE c = "0" -> 0 [] c = "1" -> 1 [] c = "2" -> 2 [] c = "3" -> 3
      [] c = "4" -> 4 [] c = "5" -> 5 [] c = "6" -> 6 [] c = "7" -> 7
      [] c = "8" -> 8 [] c = "9" -> 9

----------------------------------------------------------------------------
(* i32 arithmetic.  Every operation is decided before it is carried out, so *)
(* no intermediate number leaves the 32-bit range.                          *)

I32_MAX == 2147483647
I32_MIN == -2147483647 - 1

AddFits(a, b) ==
    IF b >= 0 THEN a <= I32_MAX - b ELSE a >= I32_MIN - b

SubFits(a, b) ==
    IF b >= 0 THEN a >= I32_MIN + b ELSE a <= I32_MAX + b

NegFits(a) == a # I32_MIN

Abs(a) == IF a < 0 THEN -a ELSE a

MulFits(a, b) ==
    IF a = 0 \/ b = 0 THEN TRUE
    ELSE IF a = I32_MIN THEN b = 1
    ELSE IF b = I32_MIN THEN a = 1
    ELSE IF (a > 0) = (b > 0) THEN Abs(a) <= I32_MAX \div Abs(b)
    ELSE IF Abs(b) = 1 THEN TRUE
    ELSE \* a negative product may reach -2^31 = -(I32_MAX + 1)
         Abs(a) <= (I32_MAX \div Abs(b))
                   + (IF I32_MAX % Abs(b) = Abs(b) - 1 THEN 1 ELSE 0)

\* a + b modulo 2^32, as i32::wrapping_add
wrapping_add(a, b) ==
    IF AddFits(a, b) THEN a + b
    ELSE IF b > 0 THEN (a + I32_MIN) + (b + I32_MIN)
    ELSE (a - I32_MIN) + (b - I32_MIN)

\* -a modulo 2^32
wrapping_neg(a) == IF a = I32_MIN THEN I32_MIN ELSE -a

\* a - b modulo 2^32
wrapping_sub(a, b) ==
    IF SubFits(a, b) THEN a - b
    ELSE IF b = I32_MIN THEN wrapping_add(wrapping_add(a, I32_MAX), 1)
    ELSE wrapping_add(a, -b)

RECURSIVE MulNat(_, _)
\* a * b modulo 2^32 for b >= 0, by doubling
MulNat(a, b) ==
    IF b = 0 THEN 0
    ELSE LET half == MulNat(wrapping_add(a, a), b \div 2)
         IN  IF b % 2 = 1 THEN wrapping_add(a, half) ELSE half

\* a * b modulo 2^32
wrapping_mul(a, b) ==
    IF MulFits(a, b) THEN a * b
    ELSE IF b = I32_MIN THEN (IF a % 2 = 0 THEN 0 ELSE I32_MIN)
    ELSE IF b < 0 THEN wrapping_neg(MulNat(a, -b))
    ELSE MulNat(a, b)

----------------------------------------------------------------------------
(* Values and results *)

ValueInt(n) == [tag |-> "Int", n |-> n, s |-> <<>>]
ValueStr(s) == [tag |-> "Str", n |-> 0, s |-> s]

\* Result<i32, String>
Ok(v) == [ok |-> TRUE, val |-> v, err |-> <<>>]
Err(e) == [ok |-> FALSE, val |-> 0, err |-> e]
NoRet == [ok |-> TRUE, val |-> 0, err |-> <<"no return value">>]

\* outcome of ExprParser::parse
NoResult == [status |-> "none", value |-> ValueInt(0), err |-> <<>>]
OkResult(v) == [status |-> "ok", value |-> v, err |-> <<>>]
ErrResult(e) == [status |-> "err", value |-> ValueInt(0), err |-> e]
Panic == [status |-> "panic", value |-> ValueInt(0), err |-> <<"attempt to compute with overflow">>]

(* The error messages of exp_parser.rs; a message with a {} slot carries *)
(* the name put into it.                                                  *)
TrailingInput == <<"Unexpected characters at end of input">>
ConsecutiveAdd == <<"Not allowed to have consecutive addition (+) operators">>
ConsecutiveSub == <<"Not allowed to have consecutive subtraction (-) operators">>
ConsecutiveMul == <<"Not allowed to have consecutive multiplication (*) operators">>
UnmatchedParenthesis == <<"Expected ')' is missing">>
RepeatedUnaryMinus == <<"Multiple unary (-) operators not allowed">>
RepeatedUnaryPlus == <<"Multiple unary (+) operators not allowed">>
InvalidToken == <<"Invalid token in expression">>
LeadingZero == <<"Invalid number: leading zeros are not allowed">>
NumberOverflow == <<"Invalid number format">>
UnterminatedString == <<"Unterminated string literal">>
TypeMismatch(name) == <<"Cannot use string variable '{}' in arithmetic", name>>
UndefinedVariable(name) == <<"Variable '{}' not defined", name>>

ConsecutiveOperator == {ConsecutiveAdd, ConsecutiveSub, ConsecutiveMul}
RepeatedUnaryOperator == {RepeatedUnaryMinus, RepeatedUnaryPlus}

----------------------------------------------------------------------------
(* Scanner *)

peek(inp, p) == IF p < Len(inp) THEN inp[p + 1] ELSE None

\* next moving the cursor even when no character remains
next_past_end(inp, p) == [ch |-> peek(inp, p), pos |-> p + 1]

\* next: the character at the cursor and the cursor after it
next(inp, p) ==
    [ch |-> peek(inp, p), pos |-> IF peek(inp, p) # None THEN p + 1 ELSE p]

RECURSIVE skip_whitespace(_, _)
skip_whitespace(inp, p) ==
    IF peek(inp, p) # None /\ is_whitespace(peek(inp, p))
    THEN skip_whitespace(inp, next(inp, p).pos)
    ELSE p

----------------------------------------------------------------------------
(* Leaf parsers: each returns the cursor it leaves and its Result *)

RECURSIVE ParseDigitsSaturating(_, _, _)
\* a conversion that clamps a number above i32::MAX into range
ParseDigitsSaturating(number, i, acc) ==
    IF i > Len(number) THEN Ok(acc)
    ELSE LET d == DigitVal(number[i])
         IN  IF acc > (I32_MAX - d) \div 10 THEN Ok(I32_MAX)
             ELSE ParseDigitsSaturating(number, i + 1, acc * 10 + d)

RECURSIVE ParseDigits(_, _, _)
\* str::parse::<i32> on a run of ASCII digits: None on overflow
ParseDigits(number, i, acc) ==
    IF i > Len(number) THEN Ok(acc)
    ELSE LET d == DigitVal(number[i])
         IN  IF acc > (I32_MAX - d) \div 10 THEN Err(NumberOverflow)
             ELSE ParseDigits(number, i + 1, acc * 10 + d)

RECURSIVE ScanDigits(_, _)
ScanDigits(inp, p) ==
    IF peek(inp, p) # None /\ is_ascii_digit(peek(inp, p))
    THEN ScanDigits(inp, next(inp, p).pos)
    ELSE p

\* parse_integer_literal without the test for a leading zero
parse_integer_literal_lenient(inp, start) ==
    LET end == ScanDigits(inp, start)
        number == SubSeq(inp, start + 1, end)
    IN  [pos |-> end, res |-> ParseDigits(number, 1, 0)]

parse_integer_literal(inp, start) ==
    LET end == ScanDigits(inp, start)
        number == SubSeq(inp, start + 1, end)
    IN  [pos |-> end,
         res |-> IF Len(number) > 1 /\ number[1] = "0"
                 THEN Err(LeadingZero)
                 ELSE ParseDigits(number, 1, 0)]

RECURSIVE ScanString(_, _, _)
\* the while-let loop of parse_string_literal
ScanString(inp, p, acc) ==
    LET c == peek(inp, p)
    IN  IF c = None THEN [pos |-> p, ok |-> FALSE, s |-> acc]
        ELSE IF c = "\"" THEN [pos |-> next(inp, p).pos, ok |-> TRUE, s |-> acc]
        ELSE ScanString(inp, next(inp, p).pos, Append(acc, c))

RECURSIVE ScanStringSkippingBlanks(_, _, _)
ScanStringSkippingBlanks(inp, p, acc) ==
    LET c == peek(inp, p)
    IN  IF c = None THEN [pos |-> p, ok |-> FALSE, s |-> acc]
        ELSE IF c = "\"" THEN [pos |-> next(inp, p).pos, ok |-> TRUE, s |-> acc]
        ELSE ScanStringSkippingBlanks(inp, next(inp, p).pos,
                                      IF is_whitespace(c) THEN acc ELSE Append(acc, c))

\* parse_string_literal leaving the blanks out of the text
parse_string_literal_skipping_blanks(inp, p) ==
    ScanStringSkippingBlanks(inp, next(inp, p).pos, <<>>)

\* returns [pos, ok, s]: Ok(Value::ValueStr(s)) or Err(UnterminatedString)
parse_string_literal(inp, p) == ScanString(inp, next(inp, p).pos, <<>>)

RECURSIVE ScanIdent(_, _)
ScanIdent(inp, p) ==
    IF peek(inp, p) # None /\ (is_ascii_alphanumeric(peek(inp, p)) \/ peek(inp, p) = "_")
    THEN ScanIdent(inp, next(inp, p).pos)
    ELSE p

\* parse_identifier reading a text variable as the integer 0
parse_identifier_coercing(inp, start, table) ==
    LET end == ScanIdent(inp, start)
        name == SubSeq(inp, start + 1, end)
    IN  [pos |-> end,
         res |-> IF name \in DOMAIN table
                 THEN IF table[name].tag = "Int" THEN Ok(table[name].n) ELSE Ok(0)
                 ELSE Err(UndefinedVariable(name))]

parse_identifier(inp, start, table) ==
    LET end == ScanIdent(inp, start)
        name == SubSeq(inp, start + 1, end)
    IN  [pos |-> end,
         res |-> IF name \in DOMAIN table
                 THEN IF table[name].tag = "Int" THEN Ok(table[name].n)
                      ELSE Err(TypeMismatch(name))
                 ELSE Err(UndefinedVariable(name))]

----------------------------------------------------------------------------
(* The call stack of the evaluator *)

Frame(fn, at, v) == [fn |-> fn, pc |-> at, value |-> v]
Top == stack[Len(stack)]
Pop(st) == SubSeq(st, 1, Len(st) - 1)
\* the running function moves to `at` and calls `fn`
Call(at, fn) ==
    Append(Append(Pop(stack), [Top EXCEPT !.pc = at]), Frame(fn, "entry", 0))
Running(fn) == stack # <<>> /\ Top.fn = fn

\* the builds an overflow can still reveal
Builds(known) == IF known = "unknown" THEN {"on", "off"} ELSE {known}

Fits(op, a, b) ==
    CASE op = "add" -> AddFits(a, b)
      [] op = "sub" -> SubFits(a, b)
      [] op = "mul" -> MulFits(a, b)
      [] op = "neg" -> NegFits(a)

\* Arith with the operands of a subtraction exchanged
ArithSubReversed(op, a, b) ==
    CASE op = "add" -> wrapping_add(a, b)
      [] op = "sub" -> wrapping_sub(b, a)
      [] op = "mul" -> wrapping_mul(a, b)
      [] op = "neg" -> wrapping_neg(a)

\* the result when it fits, else the wrapped result of a build without overflow checks
Arith(op, a, b) ==
    CASE op = "add" -> wrapping_add(a, b)
      [] op = "sub" -> wrapping_sub(a, b)
      [] op = "mul" -> wrapping_mul(a, b)
      [] op = "neg" -> wrapping_neg(a)

\* parse_end without the end-of-input test
parse_end_unchecked(inp, p, value) ==
    [pos |-> skip_whitespace(inp, p), result |-> OkResult(value)]

\* skip_whitespace and the end-of-input test that end ExprParser::parse
parse_end(inp, p, value) ==
    LET q == skip_whitespace(inp, p)
    IN  [pos |-> q,
         result |-> IF q < Len(inp) THEN ErrResult(TrailingInput) ELSE OkResult(value)]

----------------------------------------------------------------------------
(* ExprParser::parse *)

Parse ==
    /\ Running("parse") /\ Top.pc = "start"
    /\ LET p == skip_whitespace(input, pos)
       IN  IF peek(input, p) = "\""
           THEN LET lit == parse_string_literal(input, p)
                    end == parse_end(input, lit.pos, ValueStr(lit.s))
                IN  /\ pos' = IF lit.ok THEN end.pos ELSE lit.pos
                    /\ result' = IF lit.ok THEN end.result
                                 ELSE ErrResult(UnterminatedString)
                    /\ stack' = <<>>
           ELSE /\ pos' = p
                /\ stack' = Call("finish", "parse_expression")
                /\ UNCHANGED result
    /\ UNCHANGED <<input, variables, last_token_was_operator, ret, overflow_checks>>
    /\ UNCHANGED driverVars

ParseFinish ==
    /\ Running("parse") /\ Top.pc = "finish"
    /\ IF ret.ok
       THEN LET end == parse_end(input, pos, ValueInt(ret.val))
            IN  pos' = end.pos /\ result' = end.result
       ELSE pos' = pos /\ result' = ErrResult(ret.err)
    /\ stack' = <<>>
    /\ UNCHANGED <<input, variables, last_token_was_operator, ret, overflow_checks>>
    /\ UNCHANGED driverVars

----------------------------------------------------------------------------
(* A binary step  value op= rhs  of parse_expression or parse_term, then   *)
(* the flag reset that ends the loop body.  An overflowing step panics in  *)
(* a build with overflow checks and wraps in one without.                  *)

Accumulate(op) ==
    IF Fits(op, Top.value, ret.val)
    THEN /\ stack' = Append(Pop(stack),
                 [Top EXCEPT !.pc = "loop", !.value = Arith(op, Top.value, ret.val)])
         /\ last_token_was_operator' = FALSE
         /\ UNCHANGED <<result, overflow_checks>>
    ELSE \E chk \in Builds(overflow_checks) :
         /\ overflow_checks' = chk
         /\ IF chk = "on"
            THEN /\ stack' = <<>>
                 /\ result' = Panic
                 /\ UNCHANGED last_token_was_operator
            ELSE /\ stack' = Append(Pop(stack),
                         [Top EXCEPT !.pc = "loop", !.value = Arith(op, Top.value, ret.val)])
                 /\ last_token_was_operator' = FALSE
                 /\ UNCHANGED result

\* a callee's Err leaves the running function at once (the ? operator)
Propagate ==
    /\ stack' = Pop(stack)
    /\ UNCHANGED <<result, overflow_checks, last_token_was_operator>>

----------------------------------------------------------------------------
(* ExprParser::parse_expression *)

ExprEntry ==
    /\ Running("parse_expression") /\ Top.pc = "entry"
    /\ stack' = Call("first", "parse_term")
    /\ UNCHANGED <<input, pos, variables, last_token_was_operator, ret, result,
                   overflow_checks>>
    /\ UNCHANGED driverVars

ExprAccum ==
    /\ Running("parse_expression") /\ Top.pc \in {"first", "add", "sub"}
    /\ IF ~ret.ok THEN Propagate
       ELSE IF Top.pc = "first"
       THEN /\ stack' = Append(Pop(stack), [Top EXCEPT !.pc = "loop", !.value = ret.val])
            /\ UNCHANGED <<result, overflow_checks, last_token_was_operator>>
       ELSE Accumulate(Top.pc)
    /\ UNCHANGED <<input, pos, variables, ret>>
    /\ UNCHANGED driverVars

ExprLoop ==
    /\ Running("parse_expression") /\ Top.pc = "loop"
    /\ LET p == skip_whitespace(input, pos)
           c == peek(input, p)
       IN  IF c \in {"+", "-"}
           THEN IF last_token_was_operator
                THEN /\ pos' = p
                     /\ stack' = Pop(stack)
                     /\ ret' = Err(IF c = "+" THEN ConsecutiveAdd ELSE ConsecutiveSub)
                     /\ UNCHANGED last_token_was_operator
                ELSE /\ pos' = next(input, p).pos
                     /\ last_token_was_operator' = TRUE
                     /\ stack' = Call(IF c = "+" THEN "add" ELSE "sub", "parse_term")
                     /\ UNCHANGED ret
           ELSE /\ pos' = p
                /\ stack' = Pop(stack)
                /\ ret' = Ok(Top.value)
                /\ UNCHANGED last_token_was_operator
    /\ UNCHANGED <<input, variables, result, overflow_checks>>
    /\ UNCHANGED driverVars

----------------------------------------------------------------------------
(* ExprParser::parse_term *)

TermEntry ==
    /\ Running("parse_term") /\ Top.pc = "entry"
    /\ stack' = Call("first", "parse_factor")
    /\ UNCHANGED <<input, pos, variables, last_token_was_operator, ret, result,
                   overflow_checks>>
    /\ UNCHANGED driverVars

TermAccum ==
    /\ Running("parse_term") /\ Top.pc \in {"first", "mul"}
    /\ IF ~ret.ok THEN Propagate
       ELSE IF Top.pc = "first"
       THEN /\ stack' = Append(Pop(stack), [Top EXCEPT !.pc = "loop", !.value = ret.val])
            /\ UNCHANGED <<result, overflow_checks, last_token_was_operator>>
       ELSE Accumulate(Top.pc)
    /\ UNCHANGED <<input, pos, variables, ret>>
    /\ UNCHANGED driverVars

\* the loop of parse_term going on without consuming its '*'
TermLoopNotConsuming ==
    /\ Running("parse_term") /\ Top.pc = "loop"
    /\ LET p == skip_whitespace(input, pos)
           c == peek(input, p)
       IN  IF c = "*"
           THEN IF last_token_was_operator
                THEN /\ pos' = p
                     /\ stack' = Pop(stack)
                     /\ ret' = Err(ConsecutiveMul)
                     /\ UNCHANGED last_token_was_operator
                ELSE /\ pos' = p
                     /\ last_token_was_operator' = TRUE
                     /\ stack' = Call("mul", "parse_factor")
                     /\ UNCHANGED ret
           ELSE /\ pos' = p
                /\ stack' = Pop(stack)
                /\ ret' = Ok(Top.value)
                /\ UNCHANGED last_token_was_operator
    /\ UNCHANGED <<input, variables, result, overflow_checks>>
    /\ UNCHANGED driverVars

TermLoop ==
    /\ Running("parse_term") /\ Top.pc = "loop"
    /\ LET p == skip_whitespace(input, pos)
           c == peek(input, p)
       IN  IF c = "*"
           THEN IF last_token_was_operator
                THEN /\ pos' = p
                     /\ stack' = Pop(stack)
                     /\ ret' = Err(ConsecutiveMul)
                     /\ UNCHANGED last_token_was_operator
                ELSE /\ pos' = next(input, p).pos
                     /\ last_token_was_operator' = TRUE
                     /\ stack' = Call("mul", "parse_factor")
                     /\ UNCHANGED ret
           ELSE /\ pos' = p
                /\ stack' = Pop(stack)
                /\ ret' = Ok(Top.value)
                /\ UNCHANGED last_token_was_operator
    /\ UNCHANGED <<input, variables, result, overflow_checks>>
    /\ UNCHANGED driverVars

----------------------------------------------------------------------------
(* ExprParser::parse_factor *)

\* parse_factor applying a sign whatever the flag says
FactorUnchecked ==
    /\ Running("parse_factor") /\ Top.pc = "entry"
    /\ LET p == skip_whitespace(input, pos)
           c == peek(input, p)
       IN  IF c = "("
           THEN /\ pos' = next(input, p).pos
                /\ stack' = Call("paren", "parse_expression")
                /\ UNCHANGED <<ret, last_token_was_operator>>
           ELSE IF c \in {"-", "+"}
           THEN /\ last_token_was_operator' = TRUE
                /\ pos' = next(input, p).pos
                /\ stack' = Call(IF c = "-" THEN "neg" ELSE "pos", "parse_factor")
                /\ UNCHANGED ret
           ELSE IF c # None /\ is_ascii_digit(c)
           THEN LET lit == parse_integer_literal(input, p)
                IN  /\ last_token_was_operator' = FALSE
                    /\ pos' = lit.pos
                    /\ stack' = Pop(stack)
                    /\ ret' = lit.res
           ELSE IF c # None /\ (is_ascii_alphabetic(c) \/ c = "_")
           THEN LET id == parse_identifier(input, p, variables)
                IN  /\ last_token_was_operator' = FALSE
                    /\ pos' = id.pos
                    /\ stack' = Pop(stack)
                    /\ ret' = id.res
           ELSE /\ pos' = p
                /\ stack' = Pop(stack)
                /\ ret' = Err(InvalidToken)
                /\ UNCHANGED last_token_was_operator
    /\ UNCHANGED <<input, variables, result, overflow_checks>>
    /\ UNCHANGED driverVars

\* parse_factor leaving the flag as it is on an operand
FactorNotClearing ==
    /\ Running("parse_factor") /\ Top.pc = "entry"
    /\ LET p == skip_whitespace(input, pos)
           c == peek(input, p)
       IN  IF c = "("
           THEN /\ pos' = next(input, p).pos
                /\ stack' = Call("paren", "parse_expression")
                /\ UNCHANGED <<ret, last_token_was_operator>>
           ELSE IF c \in {"-", "+"}
           THEN IF last_token_was_operator
                THEN /\ pos' = p
                     /\ stack' = Pop(stack)
                     /\ ret' = Err(IF c = "-" THEN RepeatedUnaryMinus
                                   ELSE RepeatedUnaryPlus)
                     /\ UNCHANGED last_token_was_operator
                ELSE /\ last_token_was_operator' = TRUE
                     /\ pos' = next(input, p).pos
                     /\ stack' = Call(IF c = "-" THEN "neg" ELSE "pos", "parse_factor")
                     /\ UNCHANGED ret
           ELSE IF c # None /\ is_ascii_digit(c)
           THEN LET lit == parse_integer_literal(input, p)
                IN  /\ UNCHANGED last_token_was_operator
                    /\ pos' = lit.pos
                    /\ stack' = Pop(stack)
                    /\ ret' = lit.res
           ELSE IF c # None /\ (is_ascii_alphabetic(c) \/ c = "_")
           THEN LET id == parse_identifier(input, p, variables)
                IN  /\ UNCHANGED last_token_was_operator
                    /\ pos' = id.pos
                    /\ stack' = Pop(stack)
                    /\ ret' = id.res
           ELSE /\ pos' = p
                /\ stack' = Pop(stack)
                /\ ret' = Err(InvalidToken)
                /\ UNCHANGED last_token_was_operator
    /\ UNCHANGED <<input, variables, result, overflow_checks>>
    /\ UNCHANGED driverVars

Factor ==
    /\ Running("parse_factor") /\ Top.pc = "entry"
    /\ LET p == skip_whitespace(input, pos)
           c == peek(input, p)
       IN  IF c = "("
           THEN /\ pos' = next(input, p).pos
                /\ stack' = Call("paren", "parse_expression")
                /\ UNCHANGED <<ret, last_token_was_operator>>
           ELSE IF c \in {"-", "+"}
           THEN IF last_token_was_operator
                THEN /\ pos' = p
                     /\ stack' = Pop(stack)
                     /\ ret' = Err(IF c = "-" THEN RepeatedUnaryMinus
                                   ELSE RepeatedUnaryPlus)
                     /\ UNCHANGED last_token_was_operator
                ELSE /\ last_token_was_operator' = TRUE
                     /\ pos' = next(input, p).pos
                     /\ stack' = Call(IF c = "-" THEN "neg" ELSE "pos", "parse_factor")
                     /\ UNCHANGED ret
           ELSE IF c # None /\ is_ascii_digit(c)
           THEN LET lit == parse_integer_literal(input, p)
                IN  /\ last_token_was_operator' = FALSE
                    /\ pos' = lit.pos
                    /\ stack' = Pop(stack)
                    /\ ret' = lit.res
           ELSE IF c # None /\ (is_ascii_alphabetic(c) \/ c = "_")
           THEN LET id == parse_identifier(input, p, variables)
                IN  /\ last_token_was_operator' = FALSE
                    /\ pos' = id.pos
                    /\ stack' = Pop(stack)
                    /\ ret' = id.res
           ELSE /\ pos' = p
                /\ stack' = Pop(stack)
                /\ ret' = Err(InvalidToken)
                /\ UNCHANGED last_token_was_operator
    /\ UNCHANGED <<input, variables, result, overflow_checks>>
    /\ UNCHANGED driverVars

\* parse_factor taking whatever follows the nested expression for its ')'
FactorReturnUnchecked ==
    /\ Running("parse_factor") /\ Top.pc \in {"paren", "neg", "pos"}
    /\ IF ~ret.ok
       THEN /\ stack' = Pop(stack)
            /\ UNCHANGED <<pos, ret, result, overflow_checks>>
       ELSE IF Top.pc = "paren"
       THEN LET n == next(input, skip_whitespace(input, pos))
            IN  /\ pos' = n.pos
                /\ stack' = Pop(stack)
                /\ ret' = Ok(ret.val)
                /\ UNCHANGED <<result, overflow_checks>>
       ELSE IF Top.pc = "pos"
       THEN /\ stack' = Pop(stack)
            /\ UNCHANGED <<pos, ret, result, overflow_checks>>
       ELSE IF Fits("neg", ret.val, 0)
       THEN /\ stack' = Pop(stack)
            /\ ret' = Ok(Arith("neg", ret.val, 0))
            /\ UNCHANGED <<pos, result, overflow_checks>>
       ELSE \E chk \in Builds(overflow_checks) :
            /\ overflow_checks' = chk
            /\ IF chk = "on"
               THEN stack' = <<>> /\ result' = Panic /\ UNCHANGED ret
               ELSE /\ stack' = Pop(stack)
                    /\ ret' = Ok(Arith("neg", ret.val, 0))
                    /\ UNCHANGED result
            /\ UNCHANGED pos
    /\ UNCHANGED <<input, variables, last_token_was_operator>>
    /\ UNCHANGED driverVars

FactorReturn ==
    /\ Running("parse_factor") /\ Top.pc \in {"paren", "neg", "pos"}
    /\ IF ~ret.ok
       THEN /\ stack' = Pop(stack)
            /\ UNCHANGED <<pos, ret, result, overflow_checks>>
       ELSE IF Top.pc = "paren"
       THEN LET n == next(input, skip_whitespace(input, pos))
            IN  /\ pos' = n.pos
                /\ stack' = Pop(stack)
                /\ ret' = IF n.ch # ")" THEN Err(UnmatchedParenthesis) ELSE Ok(ret.val)
                /\ UNCHANGED <<result, overflow_checks>>
       ELSE IF Top.pc = "pos"
       THEN /\ stack' = Pop(stack)
            /\ UNCHANGED <<pos, ret, result, overflow_checks>>
       ELSE IF Fits("neg", ret.val, 0)
       THEN /\ stack' = Pop(stack)
            /\ ret' = Ok(Arith("neg", ret.val, 0))
            /\ UNCHANGED <<pos, result, overflow_checks>>
       ELSE \E chk \in Builds(overflow_checks) :
            /\ overflow_checks' = chk
            /\ IF chk = "on"
               THEN stack' = <<>> /\ result' = Panic /\ UNCHANGED ret
               ELSE /\ stack' = Pop(stack)
                    /\ ret' = Ok(Arith("neg", ret.val, 0))
                    /\ UNCHANGED result
            /\ UNCHANGED pos
    /\ UNCHANGED <<input, variables, last_token_was_operator>>
    /\ UNCHANGED driverVars

Evaluate ==
    \/ Parse \/ ParseFinish
    \/ ExprEntry \/ ExprAccum \/ ExprLoop
    \/ TermEntry \/ TermAccum \/ TermLoop
    \/ Factor \/ FactorReturn

----------------------------------------------------------------------------
(* Inputs of one evaluation *)

\* all sequences over A of length at most n
Strings(A, n) == UNION {[1..k -> A] : k \in 0..n}

Alphabet == {"0", "1", "+", "-", "*", "(", ")", " ", "a", "s", "z", "\""}
ArithAlphabet == {"3", "a", "+", "-", "*", "(", ")"}

EmptyTable == [name \in {} |-> ValueInt(0)]
Table ==
    (<<"a">> :> ValueInt(2)) @@ (<<"b">> :> ValueInt(3)) @@
    (<<"m">> :> ValueInt(I32_MAX)) @@ (<<"s">> :> ValueStr(<<"h", "i">>))

\* the expressions the specification names
Examples ==
    { <<"-", "1">>,
      <<"1", " ", "-", " ", "-", "2">>,
      <<"-", "1", " ", "+", " ", "-", "2">>,
      <<"(", "1", "+", "2", ")", "*", "3">>,
      <<"a", "*", "b", "+", "1">>,
      <<"1", "0", "-", "3", "-", "2">>,
      <<"1", "+", "+", "1">>,
      <<"1", "*", "*", "2">>,
      <<"1", "+", "*", "2">>,
      <<"2", "1", "4", "7", "4", "8", "3", "6", "4", "7", " ", "+", " ", "1">>,
      <<"6", "5", "5", "3", "6", " ", "*", " ", "6", "5", "5", "3", "6">>,
      <<"m", "+", "1">>,
      <<"0", "-", "m", "-", "2">>,
      <<"1", " ", "2">>,
      <<"1", ")">>,
      <<"\"", "a", "\"", " ", "+", " ", "1">>,
      <<"\"", "h", "e", "l", "l", "o", "\"">>,
      <<"s", "+", "1">>,
      <<"z">>,
      <<"(", "1", "+", "2">>,
      <<"(", "1", "+", "2", " ", "3">>,
      <<"2", "1", "4", "7", "4", "8", "3", "6", "4", "8">>,
      <<"0", "0", "7">>,
      <<"2", "1", "4", "7", "4", "8", "3", "6", "4", "7">>,
      <<"2", "1", "4", "7", "4", "8", "3", "6", "5", "0">>,
      <<"4", "2", "9", "4", "9", "6", "7", "2", "9", "7">>,
      <<"9", "9", "9", "9", "9", "9", "9", "9", "9", "9", "9">>,
      <<"1", "+", "2", "1", "4", "7", "4", "8", "3", "6", "4", "8">>,
      <<"2", "1", "4", "7", "4", "8", "3", "6", "4", "6", "+", "1">> }

\* NewParser taking over the flag of the parser before it
NewParserStaleFlag(expression) ==
    /\ input' = expression
    /\ pos' = 0
    /\ last_token_was_operator' = last_token_was_operator
    /\ stack' = <<Frame("parse", "start", 0)>>
    /\ ret' = NoRet
    /\ result' = NoResult

\* ExprParser::new(expression, &variables) followed by the call of parse
NewParser(expression) ==
    /\ input' = expression
    /\ pos' = 0
    /\ last_token_was_operator' = TRUE
    /\ stack' = <<Frame("parse", "start", 0)>>
    /\ ret' = NoRet
    /\ result' = NoResult

\* a parser that starts with the flag cleared
InitEvalFlagClear(expression, table) ==
    /\ input = expression
    /\ pos = 0
    /\ variables = table
    /\ last_token_was_operator = FALSE
    /\ stack = <<Frame("parse", "start", 0)>>
    /\ ret = NoRet
    /\ result = NoResult
    /\ overflow_checks = "unknown"
    /\ pc = "eval"
    /\ statements = <<>>
    /\ statement = <<>>
    /\ var_name = <<>>
    /\ previous = NoResult
    /\ lines_read = 0

InitEval(expression, table) ==
    /\ input = expression
    /\ pos = 0
    /\ variables = table
    /\ last_token_was_operator = TRUE
    /\ stack = <<Frame("parse", "start", 0)>>
    /\ ret = NoRet
    /\ result = NoResult
    /\ overflow_checks = "unknown"
    /\ pc = "eval"
    /\ statements = <<>>
    /\ statement = <<>>
    /\ var_name = <<>>
    /\ previous = NoResult
    /\ lines_read = 0

\* one call of evaluate on any short expression, or on a named example
InitParser ==
    \/ \E e \in Strings(Alphabet, MaxLen) : InitEval(e, Table)
    \/ \E e \in Examples, t \in {EmptyTable, Table} : InitEval(e, t)

SpecEval == InitParser /\ [][Evaluate]_vars

\* one call of evaluate on any arithmetic expression without string or blank
InitArith ==
    \/ \E e \in Strings(ArithAlphabet, MaxArithLen) : InitEval(e, Table)
    \/ \E e \in Examples : InitEval(e, Table)

SpecArith == InitArith /\ [][Evaluate]_vars

Done == stack = <<>> /\ result.status # "none"

\* the caller keeps the outcome and evaluates the same expression against
\* the same table once more, with a new parser
Again ==
    /\ Done
    /\ result.status \in {"ok", "err"}
    /\ previous.status = "none"
    /\ previous' = result
    /\ NewParser(input)
    /\ UNCHANGED <<variables, overflow_checks, pc, statements, statement, var_name,
                   lines_read>>

InitTwice ==
    \/ \E e \in Strings(Alphabet, MaxTwiceLen) : InitEval(e, Table)
    \/ \E e \in Examples, t \in {EmptyTable, Table} : InitEval(e, t)

NextTwice == Evaluate \/ Again

SpecTwice == InitTwice /\ [][NextTwice]_vars

----------------------------------------------------------------------------
(* The session driver: main *)

Min(S) == CHOOSE x \in S : \A y \in S : x <= y
Last(S) == CHOOSE x \in S : \A y \in S : y <= x

\* str::trim
trim(str) ==
    LET kept == {i \in 1..Len(str) : ~is_whitespace(str[i])}
    IN  IF kept = {} THEN <<>> ELSE SubSeq(str, Min(kept), Last(kept))

RECURSIVE split(_, _)
\* str::split(sep): every piece between separators, empty pieces included
split(str, sep) ==
    LET at == {i \in 1..Len(str) : str[i] = sep}
    IN  IF at = {} THEN <<str>>
        ELSE <<SubSeq(str, 1, Min(at) - 1)>>
             \o split(SubSeq(str, Min(at) + 1, Len(str)), sep)

ends_with(str, c) == str # <<>> /\ str[Len(str)] = c

UpperCase == <<"A", "B", "C", "D", "E", "F", "G", "H", "I", "J", "K", "L", "M",
               "N", "O", "P", "Q", "R", "S", "T", "U", "V", "W", "X", "Y", "Z">>
LowerCase == <<"a", "b", "c", "d", "e", "f", "g", "h", "i", "j", "k", "l", "m",
               "n", "o", "p", "q", "r", "s", "t", "u", "v", "w", "x", "y", "z">>
to_ascii_lowercase(c) ==
    IF \E i \in 1..Len(UpperCase) : UpperCase[i] = c
    THEN LowerCase[CHOOSE i \in 1..Len(UpperCase) : UpperCase[i] = c]
    ELSE c

eq_ignore_ascii_case(a, b) ==
    /\ Len(a) = Len(b)
    /\ \A i \in 1..Len(a) : to_ascii_lowercase(a[i]) = to_ascii_lowercase(b[i])

is_valid_identifier(name) ==
    /\ name # <<>>
    /\ is_ascii_alphabetic(name[1]) \/ name[1] = "_"
    /\ \A i \in 2..Len(name) : is_ascii_alphanumeric(name[i]) \/ name[i] = "_"

Trimmed(pieces) == [i \in 1..Len(pieces) |-> trim(pieces[i])]
NonEmpty(piece) == piece # <<>>

\* insert that drops every other entry
insert_replacing(table, key, value) == [k \in {key} |-> value]

\* insert that keeps the value of a key already present
insert_if_absent(table, key, value) ==
    [k \in DOMAIN table \cup {key} |-> IF k \in DOMAIN table THEN table[k] ELSE value]

\* HashMap::insert: the entry of key is set, every other entry is kept
insert(table, key, value) ==
    [k \in DOMAIN table \cup {key} |-> IF k = key THEN value ELSE table[k]]

\* no parser exists between two statements
NoParser ==
    /\ input' = <<>>
    /\ pos' = 0
    /\ last_token_was_operator' = TRUE
    /\ stack' = <<>>
    /\ ret' = NoRet
    /\ result' = NoResult

\* the statements a session line is made of
Pool ==
    { <<"x", "=", "5">>,
      <<"y", "=", "x">>,
      <<"x", " ", "=", " ", "(", "y", "+", "1", ")", "*", "2">>,
      <<"y", "=", "\"", "h", "i", "\"">>,
      <<"x">>,
      <<"1", "x", "=", "2">>,
      <<"x", "=", "\"", "a", "=", "b", "\"">>,
      <<"x", "=", "2", "1", "4", "7", "4", "8", "3", "6", "4", "7", "+", "1">>,
      <<" ">> }

RECURSIVE Terminated(_)
\* the statements, each followed by its semicolon
Terminated(stmts) ==
    IF stmts = <<>> THEN <<>>
    ELSE Head(stmts) \o <<";">> \o Terminated(Tail(stmts))

Lines ==
    LET whole == {Terminated(stmts) : stmts \in Strings(Pool, MaxStmts)}
    IN  whole
        \cup {SubSeq(l, 1, Len(l) - 1) : l \in whole \ {<<>>}}
        \cup {<<"E", "x", "i", "t", "\n">>}

\* lines 15-41: one line is read, trimmed and cut into statements
ReadLine ==
    /\ pc = "read"
    /\ lines_read < MaxLines
    /\ \E line \in Lines :
        LET inp == trim(line)
        IN  IF eq_ignore_ascii_case(inp, <<"e", "x", "i", "t">>)
            THEN pc' = "exited" /\ UNCHANGED statements
            ELSE IF inp = <<>> \/ ~ends_with(inp, ";")
            THEN UNCHANGED <<pc, statements>>
            ELSE /\ statements' = SelectSeq(Trimmed(split(inp, ";")), NonEmpty)
                 /\ pc' = "stmt"
    /\ lines_read' = lines_read + 1
    /\ UNCHANGED <<variables, statement, var_name, previous>>
    /\ UNCHANGED parserVars

\* lines 16-19: reading fails and the loop goes on
ReadError ==
    /\ pc = "read"
    /\ lines_read < MaxLines
    /\ lines_read' = lines_read + 1
    /\ UNCHANGED <<variables, pc, statements, statement, var_name, previous>>
    /\ UNCHANGED parserVars

\* lines 43-61: the next statement is split at = and, when it is an
\* assignment to a valid identifier, its right side is given to a new parser
Statement ==
    /\ pc = "stmt"
    /\ statements # <<>>
    /\ statement' = Head(statements)
    /\ statements' = Tail(statements)
    /\ LET parts == Trimmed(split(Head(statements), "="))
       IN  IF Len(parts) # 2 \/ ~is_valid_identifier(parts[1])
           THEN UNCHANGED <<pc, var_name>> /\ UNCHANGED parserVars
           ELSE /\ var_name' = parts[1]
                /\ NewParser(parts[2])
                /\ pc' = "eval"
                /\ UNCHANGED overflow_checks
    /\ UNCHANGED <<variables, previous, lines_read>>

\* lines 61-69: the value is stored under the target, or the error reported
StatementDone ==
    /\ pc = "eval"
    /\ stack = <<>>
    /\ result.status \in {"ok", "err"}
    /\ variables' = IF result.status = "ok"
                    THEN insert(variables, var_name, result.value)
                    ELSE variables
    /\ pc' = "stmt"
    /\ NoParser
    /\ UNCHANGED <<overflow_checks, statements, statement, var_name, previous, lines_read>>

\* lines 72-77: the table is printed and the next line awaited
EndLine ==
    /\ pc = "stmt"
    /\ statements = <<>>
    /\ pc' = "read"
    /\ UNCHANGED <<variables, statements, statement, var_name, previous, lines_read>>
    /\ UNCHANGED parserVars

Init ==
    /\ variables = EmptyTable
    /\ input = <<>>
    /\ pos = 0
    /\ last_token_was_operator = TRUE
    /\ stack = <<>>
    /\ ret = NoRet
    /\ result = NoResult
    /\ overflow_checks = "unknown"
    /\ pc = "read"
    /\ statements = <<>>
    /\ statement = <<>>
    /\ var_name = <<>>
    /\ previous = NoResult
    /\ lines_read = 0

Next ==
    \/ ReadLine \/ ReadError \/ Statement \/ StatementDone \/ EndLine
    \/ Evaluate

Spec == Init /\ [][Next]_vars

----------------------------------------------------------------------------
(* Reference semantics of arithmetic expressions, independent of the       *)
(* parser: the input is cut into tokens, the grammar                        *)
(*     E ::= T | E + T | E - T      T ::= F | T * F                         *)
(*     F ::= number | identifier | ( E )                                    *)
(* is decided by splitting at the last operator outside parentheses, and    *)
(* the value is computed left to right, the leftmost failure winning.       *)

Tok(kind, text) == [kind |-> kind, text |-> text]
Symbols == {"+", "-", "*", "(", ")"}
IdentChars == Alpha \cup Digits \cup {"_"}

\* last index of the maximal run of characters of S that starts at i
RunEnd(inp, i, S) ==
    CHOOSE j \in i..Len(inp) :
        /\ \A k \in i..j : inp[k] \in S
        /\ j = Len(inp) \/ inp[j + 1] \notin S

RECURSIVE RefLex(_, _, _)
RefLex(inp, i, toks) ==
    IF i > Len(inp) THEN [ok |-> TRUE, toks |-> toks]
    ELSE IF inp[i] \in Whitespace THEN RefLex(inp, i + 1, toks)
    ELSE IF inp[i] \in Symbols
    THEN RefLex(inp, i + 1, Append(toks, Tok("sym", <<inp[i]>>)))
    ELSE IF inp[i] \in Digits
    THEN LET j == RunEnd(inp, i, Digits)
         IN  RefLex(inp, j + 1, Append(toks, Tok("num", SubSeq(inp, i, j))))
    ELSE IF inp[i] \in Alpha \cup {"_"}
    THEN LET j == RunEnd(inp, i, IdentChars)
         IN  RefLex(inp, j + 1, Append(toks, Tok("id", SubSeq(inp, i, j))))
    ELSE [ok |-> FALSE, toks |-> <<>>]

IsSym(t, S) == t.kind = "sym" /\ t.text[1] \in S

Depth(toks, k) ==
    Cardinality({i \in 1..(k - 1) : IsSym(toks[i], {"("})})
    - Cardinality({i \in 1..(k - 1) : IsSym(toks[i], {")"})})

TopLevel(toks, ops) ==
    {k \in 1..Len(toks) : IsSym(toks[k], ops) /\ Depth(toks, k) = 0}

Max(S) == CHOOSE x \in S : \A y \in S : y <= x

Before(toks, k) == SubSeq(toks, 1, k - 1)
After(toks, k) == SubSeq(toks, k + 1, Len(toks))

RECURSIVE RefSyntax(_, _)
RefSyntax(toks, level) ==
    IF level = "E"
    THEN LET S == TopLevel(toks, {"+", "-"})
         IN  IF S # {}
             THEN RefSyntax(Before(toks, Max(S)), "E") /\ RefSyntax(After(toks, Max(S)), "T")
             ELSE RefSyntax(toks, "T")
    ELSE IF level = "T"
    THEN LET S == TopLevel(toks, {"*"})
         IN  IF S # {}
             THEN RefSyntax(Before(toks, Max(S)), "T") /\ RefSyntax(After(toks, Max(S)), "F")
             ELSE RefSyntax(toks, "F")
    ELSE \/ Len(toks) = 1 /\ toks[1].kind \in {"num", "id"}
         \/ /\ Len(toks) >= 3
            /\ IsSym(toks[1], {"("})
            /\ IsSym(toks[Len(toks)], {")"})
            /\ RefSyntax(SubSeq(toks, 2, Len(toks) - 1), "E")

RefOk(v) == [kind |-> "ok", v |-> v, err |-> <<>>]
RefErr(e) == [kind |-> "err", v |-> 0, err |-> e]
\* a step of the computation leaves the signed 32-bit range
RefUnfit == [kind |-> "unfit", v |-> 0, err |-> <<>>]

MaxDigits == <<"2", "1", "4", "7", "4", "8", "3", "6", "4", "7">>

\* the digit string, without leading zero, denotes a number above 2147483647
AboveMax(text) ==
    \/ Len(text) > Len(MaxDigits)
    \/ /\ Len(text) = Len(MaxDigits)
       /\ \E i \in 1..Len(text) :
            /\ DigitVal(text[i]) > DigitVal(MaxDigits[i])
            /\ \A k \in 1..(i - 1) : text[k] = MaxDigits[k]

RECURSIVE Decimal(_)
Decimal(text) ==
    IF text = <<>> THEN 0
    ELSE 10 * Decimal(SubSeq(text, 1, Len(text) - 1)) + DigitVal(text[Len(text)])

RefNumber(text) ==
    IF Len(text) > 1 /\ text[1] = "0" THEN RefErr(LeadingZero)
    ELSE IF AboveMax(text) THEN RefErr(NumberOverflow)
    ELSE RefOk(Decimal(text))

RefLookup(name, table) ==
    IF name \notin DOMAIN table THEN RefErr(UndefinedVariable(name))
    ELSE IF table[name].tag = "Str" THEN RefErr(TypeMismatch(name))
    ELSE RefOk(table[name].n)

RefApply(op, l, r) ==
    IF l.kind # "ok" THEN l
    ELSE IF r.kind # "ok" THEN r
    ELSE IF op = "+" THEN (IF AddFits(l.v, r.v) THEN RefOk(l.v + r.v) ELSE RefUnfit)
    ELSE IF op = "-" THEN (IF SubFits(l.v, r.v) THEN RefOk(l.v - r.v) ELSE RefUnfit)
    ELSE (IF MulFits(l.v, r.v) THEN RefOk(l.v * r.v) ELSE RefUnfit)

RECURSIVE RefEval(_, _, _)
\* the value of a token sequence that RefSyntax accepts at `level`
RefEval(toks, level, table) ==
    IF level = "E"
    THEN LET S == TopLevel(toks, {"+", "-"})
         IN  IF S # {}
             THEN RefApply(toks[Max(S)].text[1],
                           RefEval(Before(toks, Max(S)), "E", table),
                           RefEval(After(toks, Max(S)), "T", table))
             ELSE RefEval(toks, "T", table)
    ELSE IF level = "T"
    THEN LET S == TopLevel(toks, {"*"})
         IN  IF S # {}
             THEN RefApply("*",
                           RefEval(Before(toks, Max(S)), "T", table),
                           RefEval(After(toks, Max(S)), "F", table))
             ELSE RefEval(toks, "F", table)
    ELSE IF Len(toks) = 1
    THEN IF toks[1].kind = "num" THEN RefNumber(toks[1].text)
         ELSE RefLookup(toks[1].text, table)
    ELSE RefEval(SubSeq(toks, 2, Len(toks) - 1), "E", table)

Invalid == [kind |-> "invalid", v |-> 0, err |-> <<>>]

\* what an expression denotes: invalid, ok(v), err(e) or unfit
Ref(inp, table) ==
    LET lex == RefLex(inp, 1, <<>>)
    IN  IF lex.ok /\ RefSyntax(lex.toks, "E") THEN RefEval(lex.toks, "E", table)
        ELSE Invalid

----------------------------------------------------------------------------
(* Claims about one evaluation *)

Chars(inp) == {inp[i] : i \in 1..Len(inp)}

\* C1: a single unary sign in operand position is accepted: "-1" is -1,
\* "1 - -2" is 3, "-1 + -2" is -3, a lone signed digit is the digit negated
\* (sign -) or unchanged (sign +).
C1_UnarySignAccepted ==
    Done =>
        /\ input = <<"-", "1">> => result = OkResult(ValueInt(-1))
        /\ input = <<"1", " ", "-", " ", "-", "2">> => result = OkResult(ValueInt(3))
        /\ input = <<"-", "1", " ", "+", " ", "-", "2">> => result = OkResult(ValueInt(-3))
        /\ \A d \in Digits :
            /\ input = <<"-", d>> => result = OkResult(ValueInt(-DigitVal(d)))
            /\ input = <<"+", d>> => result = OkResult(ValueInt(DigitVal(d)))

\* C2: every valid expression of literals, integer variables, binary + - *
\* and parentheses whose steps all fit in 32 bits evaluates to its value
\* under standard precedence and left associativity.
C2_StandardArithmetic ==
    Done => LET r == Ref(input, variables)
            IN  r.kind = "ok" => result = OkResult(ValueInt(r.v))

\* an expression whose value depends on * binding tighter than -
C2_Witness ==
    /\ Done
    /\ input = <<"3", "-", "a", "*", "a">>
    /\ Ref(input, variables).kind = "ok"
    /\ result = OkResult(ValueInt(-1))

\* C3: a binary operator directly followed by another binary operator
\* character fails with the ConsecutiveOperator error.
C3_ConsecutiveOperatorError ==
    Done =>
        /\ input \in {<<"1", "+", "+", "1">>, <<"1", "*", "*", "2">>, <<"1", "+", "*", "2">>}
            => result.status = "err" /\ result.err \in ConsecutiveOperator
        /\ \A d \in Digits, e \in Digits, op \in {"+", "*"} :
            input = <<d, op, op, e>>
            => result.status = "err" /\ result.err \in ConsecutiveOperator

\* C4: evaluate never crashes, and a + - * step whose result leaves the
\* signed 32-bit range is rejected with the NumberOverflow error.
C4_OverflowRejected ==
    Done =>
        /\ result.status \in {"ok", "err"}
        /\ Ref(input, variables).kind = "unfit" => result = ErrResult(NumberOverflow)

\* the text is a string literal: blanks, a quote, characters that are no
\* quote, a quote
IsStringLiteral(e) ==
    \E i \in 1..Len(e) :
        /\ \A k \in 1..(i - 1) : e[k] \in Whitespace
        /\ e[i] = "\""
        /\ i < Len(e)
        /\ e[Len(e)] = "\""
        /\ \A k \in (i + 1)..(Len(e) - 1) : e[k] # "\""

NonBlank(rest) == {i \in 1..Len(rest) : rest[i] \notin Whitespace}

\* rest cannot continue the arithmetic expression e: its first non-blank
\* character is no operator, and it does not lengthen e's last token
StopsExpression(e, rest) ==
    /\ NonBlank(rest) # {}
    /\ rest[CHOOSE i \in NonBlank(rest) : \A j \in NonBlank(rest) : i <= j]
            \notin {"+", "-", "*"}
    /\ ~(e[Len(e)] \in IdentChars /\ rest[1] \in IdentChars)

\* the input splits into a complete expression or string literal and a
\* remainder with a non-blank character that cannot continue it
HasTrailingInput(inp, table) ==
    \E k \in 1..(Len(inp) - 1) :
        LET e == SubSeq(inp, 1, k)
            rest == SubSeq(inp, k + 1, Len(inp))
        IN  \/ IsStringLiteral(e) /\ NonBlank(rest) # {}
            \/ Ref(e, table).kind = "ok" /\ StopsExpression(e, rest)

\* C5: a successful evaluate has consumed the whole input, and a complete
\* expression or string literal followed by a non-blank remainder fails
\* with TrailingInput.
C5_WholeInputConsumed ==
    Done =>
        /\ result.status = "ok" => pos = Len(input)
        /\ HasTrailingInput(input, variables) => result = ErrResult(TrailingInput)

C5_Witness ==
    /\ Done
    /\ input = <<"1", ")">>
    /\ HasTrailingInput(input, variables)
    /\ result = ErrResult(TrailingInput)
    /\ pos < Len(input)

IdentTokens(inp) ==
    LET lex == RefLex(inp, 1, <<>>)
    IN  {lex.toks[i].text : i \in {j \in 1..Len(lex.toks) : lex.toks[j].kind = "id"}}

\* C6: an identifier of an arithmetic expression yields its integer, fails
\* with TypeMismatch when it maps to a text and with UndefinedVariable when
\* it is absent; no text is ever read as an integer.
C6_IdentifierResolution ==
    Done =>
        LET r == Ref(input, variables)
        IN  /\ r.kind = "ok" => result = OkResult(ValueInt(r.v))
            /\ (r.kind = "err" /\ r.err \notin {LeadingZero, NumberOverflow})
                => result = ErrResult(r.err)
            /\ (result.status = "ok" /\ result.value.tag = "Int")
                => /\ RefLex(input, 1, <<>>).ok
                   /\ \A name \in IdentTokens(input) :
                        name \in DOMAIN variables /\ variables[name].tag = "Int"

C6_Witness ==
    /\ Done
    /\ input = <<"a", "*", "s">>
    /\ variables[<<"s">>].tag = "Str"
    /\ result = ErrResult(TypeMismatch(<<"s">>))

----------------------------------------------------------------------------
(* Claims about the session *)

FirstEquals(stmt) == Min({i \in 1..Len(stmt) : stmt[i] = "="})
\* the text before the first = of a statement, trimmed
TargetOf(stmt) == trim(SubSeq(stmt, 1, FirstEquals(stmt) - 1))
\* the text after the first = of a statement, trimmed
ValueOf(stmt) == trim(SubSeq(stmt, FirstEquals(stmt) + 1, Len(stmt)))

\* the evaluation of the current statement has returned to main
Evaluated == pc = "eval" /\ stack = <<>> /\ result.status # "none"

\* C7: the table changes only when a statement's evaluation has succeeded,
\* and then exactly the entry of the statement's target is set to the value;
\* every other step, and a failed evaluation, leaves every entry as it was.
C7_TableChangedOnlyBySuccess ==
    [][ /\ variables' # variables =>
            /\ Evaluated /\ result.status = "ok"
            /\ "=" \in Chars(statement) /\ var_name = TargetOf(statement)
        /\ (Evaluated /\ result.status = "ok" /\ pc' # pc) =>
            /\ DOMAIN variables' = DOMAIN variables \cup {var_name}
            /\ variables'[var_name] = result.value
            /\ \A n \in DOMAIN variables \ {var_name} : variables'[n] = variables[n]
        /\ (Evaluated /\ result.status # "ok") => variables' = variables
      ]_vars

\* a failed evaluation has left the previous value of its target in place
C7_Witness ==
    /\ pc = "stmt"
    /\ statement = <<"y", "=", "x">>
    /\ variables = (<<"y">> :> ValueStr(<<"h", "i">>))

\* C8: a failed statement stops neither the session nor the rest of its
\* line: a rejected statement and a failed evaluation both leave main at the
\* next statement of the line, and every evaluation ends in a value or an
\* error that main handles.
C8_FailedStatementSkipped ==
    [][ /\ (pc = "stmt" /\ statements # <<>>) =>
            /\ statements' = Tail(statements)
            /\ pc' \in {"stmt", "eval"}
        /\ (pc = "eval" /\ stack # <<>> /\ stack' = <<>>) =>
            result'.status \in {"ok", "err"}
        /\ (Evaluated /\ pc' # pc) =>
            pc' = "stmt" /\ statements' = statements
      ]_vars

\* C9: a statement is split at its first = only: the trimmed text before it
\* is the target and the whole trimmed remainder, further = included, is
\* handed to evaluate.
C9_SplitAtFirstEquals ==
    [][ ( /\ pc = "stmt" /\ statements # <<>>
          /\ "=" \in Chars(Head(statements))
          /\ is_valid_identifier(TargetOf(Head(statements))) )
        => /\ pc' = "eval"
           /\ var_name' = TargetOf(Head(statements))
           /\ input' = ValueOf(Head(statements))
      ]_vars

\* C10: a successful assignment stores the value of its expression under
\* the table as it is then, and an entry keeps its value until a later
\* successful assignment to the same name: a reference to x yields the value
\* most recently assigned to x.
C10_RoundTrip ==
    [][ /\ (Evaluated /\ pc' # pc /\ Ref(input, variables).kind = "ok") =>
            variables'[var_name] = ValueInt(Ref(input, variables).v)
        /\ \A n \in DOMAIN variables :
            (n \notin DOMAIN variables' \/ variables'[n] # variables[n])
            => Evaluated /\ result.status = "ok" /\ var_name = n
      ]_vars

\* y = x has been evaluated after x = 5, and x was then reassigned from y
C10_Witness ==
    /\ pc = "stmt"
    /\ statement = <<"x", " ", "=", " ", "(", "y", "+", "1", ")", "*", "2">>
    /\ DOMAIN variables = {<<"x">>, <<"y">>}
    /\ variables[<<"y">>] = ValueInt(5)
    /\ variables[<<"x">>] = ValueInt(12)

----------------------------------------------------------------------------
(* Claims about one evaluation, continued *)

\* C11: evaluate never changes the variable mapping, every call starts at
\* position 0 with the flag as ExprParser::new sets it, and a second
\* evaluation of the same expression against the same mapping returns what
\* the first returned.
C11_EvaluateIsPure ==
    [][ /\ variables' = variables
        /\ (stack' # <<>> /\ stack'[1].pc = "start") =>
            pos' = 0 /\ last_token_was_operator' = TRUE /\ result' = NoResult
        /\ (Done' /\ previous'.status # "none") => result' = previous'
      ]_vars

\* a second evaluation has returned the value of the first
C11_Witness ==
    /\ Done
    /\ input = <<"a", "+", "1">>
    /\ previous = OkResult(ValueInt(3))
    /\ result = previous

\* the maximal run of digits that ends at the cursor
DigitRunBefore(inp, p) ==
    LET S == {i \in 0..p : \A k \in (i + 1)..p : inp[k] \in Digits}
    IN  SubSeq(inp, Min(S) + 1, p)

HasLeadingZero(number) == Len(number) > 1 /\ number[1] = "0"

\* C12: an expression whose leftmost failing operand is an integer literal
\* longer than one digit that starts with '0' fails with LeadingZero, in
\* first position, after an operator or inside parentheses; LeadingZero is
\* returned only with the cursor right after such a literal; the single
\* digit "0" is Integer(0).
C12_LeadingZeroRule ==
    Done =>
        /\ Ref(input, variables) = RefErr(LeadingZero) => result = ErrResult(LeadingZero)
        /\ trim(input) \in {<<"0", "0">>, <<"0", "1">>, <<"0", "0", "7">>} =>
                result = ErrResult(LeadingZero)
        /\ result = ErrResult(LeadingZero) =>
                /\ HasLeadingZero(DigitRunBefore(input, pos))
                /\ peek(input, pos) \notin Digits
        /\ trim(input) = <<"0">> => result = OkResult(ValueInt(0))
        /\ result.status = "ok" /\ result.value.tag = "Int" /\ Ref(input, variables).kind = "ok" =>
                \A i \in 1..Len(RefLex(input, 1, <<>>).toks) :
                    LET t == RefLex(input, 1, <<>>).toks[i]
                    IN  t.kind = "num" => ~HasLeadingZero(t.text)

\* a literal with a leading zero after an operator has been rejected
C12_Witness ==
    /\ Done
    /\ input = <<"1", "+", "0", "0">>
    /\ result = ErrResult(LeadingZero)

\* the expression is one integer literal, blanks around it aside
IsLiteral(e) == e # <<>> /\ Chars(e) \subseteq Digits /\ ~HasLeadingZero(e)

\* C13: an integer literal without leading zero evaluates to exactly its
\* decimal value when that is at most 2147483647 and fails with
\* NumberOverflow when it is larger, alone or as an operand; NumberOverflow
\* is returned only with the cursor right after a literal above 2147483647.
C13_LiteralRange ==
    Done =>
        /\ IsLiteral(trim(input)) =>
                IF AboveMax(trim(input))
                THEN result = ErrResult(NumberOverflow)
                ELSE result = OkResult(ValueInt(Decimal(trim(input))))
        /\ Ref(input, variables) = RefErr(NumberOverflow) =>
                result = ErrResult(NumberOverflow)
        /\ result = ErrResult(NumberOverflow) =>
                /\ IsLiteral(DigitRunBefore(input, pos))
                /\ AboveMax(DigitRunBefore(input, pos))
                /\ peek(input, pos) \notin Digits

\* the smallest literal out of range has been rejected
C13_Witness ==
    /\ Done
    /\ input = <<"2", "1", "4", "7", "4", "8", "3", "6", "4", "8">>
    /\ result = ErrResult(NumberOverflow)

Signs == {"+", "-"}

\* the first character after index i that is not a blank
NextNonBlank(inp, i) == peek(inp, skip_whitespace(inp, i))

RECURSIVE Closers(_)
Closers(n) == IF n <= 0 THEN <<>> ELSE <<")">> \o Closers(n - 1)

\* the prefix ends where an operand has to start: at the start, after '('
\* or after a binary operator, in an expression that is well formed and
\* evaluates so far
OperandPosition(prefix, table) ==
    LET before == trim(prefix)
        open == Cardinality({k \in 1..Len(prefix) : prefix[k] = "("})
                - Cardinality({k \in 1..Len(prefix) : prefix[k] = ")"})
    IN  /\ before = <<>> \/ before[Len(before)] \in {"+", "-", "*", "("}
        /\ Ref(prefix \o <<"1">> \o Closers(open), table).kind = "ok"

\* C14: a sign at an operand position that is followed, blanks aside, by
\* another sign fails with the 'Multiple unary' error of the first sign,
\* and no expression accepted as an integer has two signs next to each
\* other, blanks aside.
C14_RepeatedUnaryRejected ==
    Done =>
        /\ \A i \in 1..Len(input) :
                ( /\ input[i] \in Signs
                  /\ NextNonBlank(input, i) \in Signs
                  /\ OperandPosition(SubSeq(input, 1, i - 1), variables) )
                => result = ErrResult(IF input[i] = "-" THEN RepeatedUnaryMinus
                                      ELSE RepeatedUnaryPlus)
        /\ (result.status = "ok" /\ result.value.tag = "Int") =>
                \A i \in 1..Len(input) :
                    ~(input[i] \in Signs /\ NextNonBlank(input, i) \in Signs)

\* two signs after a binary operator have been rejected
C14_Witness ==
    /\ Done
    /\ input = <<"1", "*", "-", "+">>
    /\ result = ErrResult(RepeatedUnaryMinus)

\* nothing but blanks
Blank(rest) == NonBlank(rest) = {}

FirstNonBlank(rest) == rest[Min(NonBlank(rest))]

\* number of '(' minus number of ')' in e
Nesting(e) ==
    Cardinality({k \in 1..Len(e) : e[k] = "("}) - Cardinality({k \in 1..Len(e) : e[k] = ")"})

Balanced(e) ==
    /\ Nesting(e) = 0
    /\ \A k \in 1..Len(e) : Nesting(SubSeq(e, 1, k)) >= 0

\* C15: a '(' at an operand position, followed by a complete expression
\* after which the input ends or goes on with a character that is neither
\* ')' nor a continuation of that expression, fails with
\* UnmatchedParenthesis; an expression accepted as an integer has balanced
\* parentheses, and one with parentheses has the value of the grouped
\* reading ("(1+2)*3" is 9).
C15_ParenthesisBalance ==
    Done =>
        /\ \A i \in 1..Len(input) : \A k \in (i + 1)..Len(input) :
                LET e == SubSeq(input, i + 1, k)
                    rest == SubSeq(input, k + 1, Len(input))
                IN  ( /\ input[i] = "("
                      /\ Blank(rest) \/ (StopsExpression(e, rest) /\ FirstNonBlank(rest) # ")")
                      /\ Ref(e, variables).kind = "ok"
                      /\ OperandPosition(SubSeq(input, 1, i - 1), variables) )
                    => result = ErrResult(UnmatchedParenthesis)
        /\ (result.status = "ok" /\ result.value.tag = "Int") => Balanced(input)
        /\ ("(" \in Chars(input) /\ Ref(input, variables).kind = "ok") =>
                result = OkResult(ValueInt(Ref(input, variables).v))
        /\ input = <<"(", "1", "+", "2", ")", "*", "3">> => result = OkResult(ValueInt(9))

\* a nested expression followed by a digit instead of ')' has been rejected
C15_Witness ==
    /\ Done
    /\ input = <<"(", "1", "+", "2", " ", "3">>
    /\ result = ErrResult(UnmatchedParenthesis)

\* the first character of the expression that is not a blank is '"'
StartsWithQuote(inp) == peek(inp, skip_whitespace(inp, 0)) = "\""

\* index of that quote, and the indices of the quotes after it
OpeningQuote(inp) == skip_whitespace(inp, 0) + 1
LaterQuotes(inp) == {k \in (OpeningQuote(inp) + 1)..Len(inp) : inp[k] = "\""}

\* the characters between the opening quote and the next one
QuotedText(inp) == SubSeq(inp, OpeningQuote(inp) + 1, Min(LaterQuotes(inp)) - 1)

\* what follows the closing quote
AfterQuotedText(inp) == SubSeq(inp, Min(LaterQuotes(inp)) + 1, Len(inp))

\* C16 as stated: an expression whose first non-blank character is '"'
\* evaluates to the text between that quote and the next one, and fails
\* with UnterminatedString when there is no next one.
C16_StringLiteralAlwaysText ==
    (Done /\ StartsWithQuote(input)) =>
        IF LaterQuotes(input) = {}
        THEN result = ErrResult(UnterminatedString)
        ELSE result = OkResult(ValueStr(QuotedText(input)))

\* C16, amended: an expression whose first non-blank character is '"'
\* fails with UnterminatedString when no further '"' follows; otherwise it
\* evaluates to exactly the characters between the two quotes, blanks and
\* operator characters included, whatever the variable mapping, when only
\* blanks follow the closing quote, and fails with TrailingInput when
\* anything else follows it.
C16_StringLiteral ==
    (Done /\ StartsWithQuote(input)) =>
        IF LaterQuotes(input) = {}
        THEN result = ErrResult(UnterminatedString)
        ELSE IF Blank(AfterQuotedText(input))
        THEN result = OkResult(ValueStr(QuotedText(input)))
        ELSE result = ErrResult(TrailingInput)

\* a literal holding a blank and an operator character has been returned
C16_Witness ==
    /\ Done
    /\ input = <<"\"", " ", "+", "\"">>
    /\ result = OkResult(ValueStr(<<" ", "+">>))

\* C17: in every step of an evaluation the cursor does not move back and
\* stays within 0..Len(input); at every cursor position peek leaves the
\* position alone and next returns the character there and moves by
\* exactly one, and at the end of the input next returns None and does not
\* move; skip_whitespace stops on the first character that is no blank.
C17_CursorDiscipline ==
    [][ /\ pos' >= pos
        /\ 0 <= pos /\ pos <= Len(input)
        /\ 0 <= pos' /\ pos' <= Len(input')
        /\ input' = input
        /\ \A p \in 0..(Len(input) - 1) :
                /\ peek(input, p) = input[p + 1]
                /\ next(input, p) = [ch |-> input[p + 1], pos |-> p + 1]
        /\ peek(input, Len(input)) = None
        /\ next(input, Len(input)) = [ch |-> None, pos |-> Len(input)]
        /\ \A p \in 0..Len(input) :
                LET q == skip_whitespace(input, p)
                IN  /\ p <= q /\ q <= Len(input)
                    /\ \A k \in (p + 1)..q : input[k] \in Whitespace
                    /\ q < Len(input) => input[q + 1] \notin Whitespace
      ]_vars

\* next has been called at the end of the input, looking for a ')'
C17_Witness ==
    /\ Done
    /\ input = <<"(", "1", " ">>
    /\ pos = Len(input)
    /\ result = ErrResult(UnmatchedParenthesis)

\* steps a frame may still take before the cursor moves or the frame returns
Weight(frame) ==
    IF frame.fn = "parse"
    THEN (IF frame.pc = "start" THEN 9 ELSE 1)
    ELSE IF frame.fn = "parse_expression"
    THEN (IF frame.pc = "entry" THEN 7 ELSE IF frame.pc = "loop" THEN 1 ELSE 2)
    ELSE IF frame.fn = "parse_term"
    THEN (IF frame.pc = "entry" THEN 4 ELSE IF frame.pc = "loop" THEN 1 ELSE 2)
    ELSE 1

\* number of frames of weight w
WeightCount(st, w) == Cardinality({i \in 1..Len(st) : Weight(st[i]) = w})

\* the sum of the weights of the frames (the weights are 1, 2, 4, 7 and 9)
TotalWeight(st) ==
    WeightCount(st, 1) + 2 * WeightCount(st, 2) + 4 * WeightCount(st, 4)
        + 7 * WeightCount(st, 7) + 9 * WeightCount(st, 9)

\* a measure of the work left: eight steps for each character not yet
\* consumed, and the steps the open calls may take without consuming
Rank == 8 * (Len(input) - pos) + TotalWeight(stack)

\* the function on top of the stack is at a point where it goes on
CanStep(st) ==
    /\ st # <<>>
    /\ LET frame == st[Len(st)]
       IN  \/ frame.fn = "parse" /\ frame.pc \in {"start", "finish"}
           \/ frame.fn = "parse_expression" /\ frame.pc \in {"entry", "first", "add", "sub", "loop"}
           \/ frame.fn = "parse_term" /\ frame.pc \in {"entry", "first", "mul", "loop"}
           \/ frame.fn = "parse_factor" /\ frame.pc \in {"entry", "paren", "neg", "pos"}

\* C18: every step of an evaluation lowers Rank, which starts at
\* 8 * Len(input) + 9 and is never negative, and an evaluation that has not
\* returned can take a step: evaluate returns within 8 * Len(input) + 9
\* steps.  A call of parse_factor consumes a character or returns an
\* error; an iteration of the loop of parse_expression or parse_term that
\* goes on consumes an operator; the call stack is never deeper than
\* 3 * Len(input) + 4.
C18_Terminates ==
    [][ /\ LET before == Rank
               after == Rank'
           IN  after < before /\ 0 <= after /\ before <= 8 * Len(input) + 9
        /\ Done' \/ CanStep(stack')
        /\ (Running("parse_factor") /\ Top.pc = "entry") =>
                pos' > pos \/ (~ret'.ok /\ stack' = Pop(stack))
        /\ (Running("parse_expression") /\ Top.pc = "loop" /\ Len(stack') >= Len(stack)) =>
                pos' > pos /\ input[pos'] \in {"+", "-"}
        /\ (Running("parse_term") /\ Top.pc = "loop" /\ Len(stack') >= Len(stack)) =>
                pos' > pos /\ input[pos'] = "*"
        /\ Len(stack') <= 3 * pos' + 4 /\ pos' <= Len(input)
      ]_vars

\* an evaluation with a nested call and both loops has returned
C18_Witness ==
    /\ Done
    /\ input = <<"(", "1", "+", "2", ")", "*", "3">>
    /\ result = OkResult(ValueInt(9))
    /\ Rank = 0

\* C19: whenever parse_factor is entered last_token_was_operator is TRUE,
\* from the first call on; a parse_factor that finds a sign therefore
\* returns the 'Multiple unary' error of that sign, and no call is ever
\* waiting for the operand of a unary sign, so the negation is never
\* carried out.
C19_FlagSetAtFactorEntry ==
    [][ /\ (stack # <<>> /\ stack[1].pc = "start") => last_token_was_operator
        /\ (Running("parse_factor") /\ Top.pc = "entry") =>
                /\ last_token_was_operator
                /\ NextNonBlank(input, pos) \in Signs =>
                        /\ stack' = Pop(stack)
                        /\ ret' = Err(IF NextNonBlank(input, pos) = "-"
                                      THEN RepeatedUnaryMinus ELSE RepeatedUnaryPlus)
        /\ \A i \in 1..Len(stack') : stack'[i].pc \notin {"neg", "pos"}
      ]_vars

\* parse_factor has been entered after a binary '-' with a sign ahead
C19_Witness ==
    /\ Running("parse_factor") /\ Top.pc = "entry"
    /\ input = <<"1", "-", "-", "1">>
    /\ pos = 2
    /\ last_token_was_operator

\* the points a callee returns to
ReturnPoints == {"finish", "first", "add", "sub", "mul", "paren", "neg", "pos"}

\* C20: when parse_factor, parse_term or parse_expression has returned Ok,
\* last_token_was_operator is FALSE; it is FALSE whenever the loop of
\* parse_expression or parse_term looks at the next character; and no call
\* returns one of the three 'consecutive ... operators' errors.
C20_FlagClearAfterOperand ==
    /\ (stack # <<>> /\ Top.pc \in ReturnPoints /\ ret.ok) => ~last_token_was_operator
    /\ (stack # <<>> /\ Top.pc = "loop") => ~last_token_was_operator
    /\ ret.err \notin ConsecutiveOperator
    /\ result.err \notin ConsecutiveOperator

\* the loop of parse_expression is about to look at a '+' with the flag clear
C20_Witness ==
    /\ Running("parse_expression") /\ Top.pc = "loop"
    /\ input = <<"1", "+", "+", "1">>
    /\ pos = 1
    /\ ~last_token_was_operator

====
